---- MODULE Spec2Model ----
(***************************************************************************)
(* Model of two pieces of openshift/origin:                                *)
(*   - the required-scc monitor test (requiredSCCAnnotationChecker), its    *)
(*     MonitorTest phases and the per-pod classification of CollectData;    *)
(*   - allowedAPIServerDisruption, the tolerated API disruption of the      *)
(*     control-plane upgrade tests.                                         *)
(* TLC integers are 32 bits wide, nanosecond durations are not: durations   *)
(* and float64 mantissas are natural numbers held as little-endian          *)
(* sequences of limbs in base 2^15.                                         *)
(***************************************************************************)
EXTENDS Integers, Sequences, FiniteSets, TLC

VARIABLES
    kubeClient,   \* requiredSCCAnnotationChecker.kubeClient (an interface value)
    collected,    \* CollectData has been called on this plugin instance
    op,           \* the phase called last
    cluster,      \* the cluster snapshot served to the last CollectData
    apiCalls,     \* the list calls the last phase call made
    ret,          \* what the last phase call returned
    before,       \* what CollectData returned the time before, on the same snapshot
    facts,        \* what allowedAPIServerDisruption read from the cluster
    disruption    \* the outcome of allowedAPIServerDisruption

vars == <<kubeClient, collected, op, cluster, apiCalls, ret, before, facts, disruption>>

(***************************************************************************)
(* Natural numbers wider than 32 bits.                                     *)
(***************************************************************************)
Base == 2^15

RECURSIVE Pow2(_)
Pow2(k) == IF k = 0 THEN 1 ELSE 2 * Pow2(k - 1)

RECURSIVE Norm(_)
Norm(a) == IF a # <<>> /\ a[Len(a)] = 0 THEN Norm(SubSeq(a, 1, Len(a) - 1)) ELSE a

RECURSIVE FromInt(_)
FromInt(n) == IF n = 0 THEN <<>> ELSE <<n % Base>> \o FromInt(n \div Base)

RECURSIVE AddC(_, _, _)
AddC(a, b, c) ==
    IF a = <<>> /\ b = <<>> THEN (IF c = 0 THEN <<>> ELSE <<c>>)
    ELSE LET x == IF a = <<>> THEN 0 ELSE Head(a)
             y == IF b = <<>> THEN 0 ELSE Head(b)
             s == x + y + c
         IN <<s % Base>> \o AddC(IF a = <<>> THEN a ELSE Tail(a),
                                 IF b = <<>> THEN b ELSE Tail(b), s \div Base)

BigAdd(a, b) == Norm(AddC(a, b, 0))

RECURSIVE MulSmallC(_, _, _)
MulSmallC(a, k, c) ==
    IF a = <<>> THEN FromInt(c)
    ELSE LET s == Head(a) * k + c
         IN <<s % Base>> \o MulSmallC(Tail(a), k, s \div Base)

\* a * k, for 0 <= k <= Base
BigMulSmall(a, k) == Norm(MulSmallC(a, k, 0))

RECURSIVE BigMul(_, _)
BigMul(a, b) ==
    IF b = <<>> \/ a = <<>> THEN <<>>
    ELSE BigAdd(BigMulSmall(a, Head(b)), Norm(<<0>> \o BigMul(a, Tail(b))))

RECURSIVE CmpFrom(_, _, _)
CmpFrom(a, b, i) ==
    IF i = 0 THEN 0
    ELSE IF a[i] < b[i] THEN -1
    ELSE IF a[i] > b[i] THEN 1
    ELSE CmpFrom(a, b, i - 1)

\* -1, 0 or 1 as a < b, a = b, a > b (both normalised)
BigCmp(a, b) ==
    IF Len(a) < Len(b) THEN -1
    ELSE IF Len(a) > Len(b) THEN 1
    ELSE CmpFrom(a, b, Len(a))

BigLeq(a, b) == BigCmp(a, b) <= 0
BigLess(a, b) == BigCmp(a, b) < 0

RECURSIVE BitLenSmall(_)
BitLenSmall(n) == IF n = 0 THEN 0 ELSE 1 + BitLenSmall(n \div 2)

BitLen(a) == IF a = <<>> THEN 0 ELSE 15 * (Len(a) - 1) + BitLenSmall(a[Len(a)])

RECURSIVE ShiftLeft(_, _)
ShiftLeft(a, s) ==
    IF a = <<>> THEN <<>>
    ELSE IF s >= 15 THEN <<0>> \o ShiftLeft(a, s - 15)
    ELSE BigMulSmall(a, Pow2(s))

RECURSIVE ShiftRight(_, _)
ShiftRight(a, s) ==
    IF a = <<>> THEN <<>>
    ELSE IF s >= 15 THEN ShiftRight(Tail(a), s - 15)
    ELSE Norm([i \in 1..Len(a) |->
                 (a[i] \div Pow2(s))
                 + (IF i < Len(a) THEN (a[i + 1] % Pow2(s)) * Pow2(15 - s) ELSE 0)])

\* a mod 2^s
LowBits(a, s) ==
    LET q == s \div 15
        r == s % 15
    IN IF Len(a) <= q THEN a
       ELSE Norm(SubSeq(a, 1, q) \o <<a[q + 1] % Pow2(r)>>)

IsOdd(a) == a # <<>> /\ a[1] % 2 = 1

\* a / 2^s rounded to the nearest integer, ties to even
ShiftRightRNE(a, s) ==
    IF s = 0 THEN a
    ELSE LET q    == ShiftRight(a, s)
             rem  == LowBits(a, s)
             half == ShiftLeft(<<1>>, s - 1)
             c    == BigCmp(rem, half)
         IN IF c > 0 \/ (c = 0 /\ IsOdd(q)) THEN BigAdd(q, <<1>>) ELSE q

RECURSIVE DivSmallFrom(_, _, _, _)
DivSmallFrom(a, k, i, r) ==
    IF i = 0 THEN [quot |-> <<>>, rem |-> r]
    ELSE LET cur  == r * Base + a[i]
             rest == DivSmallFrom(a, k, i - 1, cur % k)
         IN [quot |-> rest.quot \o <<cur \div k>>, rem |-> rest.rem]

\* quotient and remainder of a by k, for 0 < k < Base
BigDivSmall(a, k) ==
    LET d == DivSmallFrom(a, k, Len(a), 0)
    IN [quot |-> Norm(d.quot), rem |-> d.rem]

(***************************************************************************)
(* float64 values, held as mant * 2^exp with mant below 2^53 (or 2^53       *)
(* itself after a carry), and the three float64 operations of              *)
(* allowedAPIServerDisruption: the conversion of the int64 nanoseconds,     *)
(* the multiplication and the conversion of the product back to int64.      *)
(***************************************************************************)
RECURSIVE LitExp(_, _, _)
LitExp(num, den, e) ==
    IF BitLen(BigDivSmall(ShiftLeft(FromInt(num), e), den).quot) >= 53 THEN e
    ELSE LitExp(num, den, e + 1)

\* the float64 nearest to the decimal literal num/den (0 <= num < den < Base):
\* num/den * 2^e rounded to an integer, for the e that gives it 53 bits
Float64Lit(d) ==
    IF d.num = 0 THEN [mant |-> <<>>, exp |-> 0]
    ELSE LET e  == LitExp(d.num, d.den, 50 - BitLenSmall(d.num))
             qr == BigDivSmall(ShiftLeft(FromInt(d.num), e), d.den)
             up == 2 * qr.rem > d.den \/ (2 * qr.rem = d.den /\ IsOdd(qr.quot))
         IN [mant |-> IF up THEN BigAdd(qr.quot, <<1>>) ELSE qr.quot, exp |-> 0 - e]

\* round a natural number times 2^exp to 53 significant bits, ties to even
Round53(m, exp) ==
    LET s == IF BitLen(m) > 53 THEN BitLen(m) - 53 ELSE 0
    IN [mant |-> ShiftRightRNE(m, s), exp |-> exp + s]

\* float64(n) for a non-negative int64 n
Float64OfInt(n) == Round53(n, 0)

\* x * y in float64
Float64Mul(x, y) == Round53(BigMul(x.mant, y.mant), x.exp + y.exp)

\* the conversion, mutated: rounds to the nearest integer
Int64OfFloat64Rounding(x) ==
    IF x.exp >= 0 THEN ShiftLeft(x.mant, x.exp) ELSE ShiftRightRNE(x.mant, 0 - x.exp)

\* int64(x) for a non-negative x below 2^63: the fraction is discarded
Int64OfFloat64(x) ==
    IF x.exp >= 0 THEN ShiftLeft(x.mant, x.exp) ELSE ShiftRight(x.mant, 0 - x.exp)

(***************************************************************************)
(* time.Duration values (int64 nanoseconds).                               *)
(***************************************************************************)
Second == FromInt(1000000000)
Minute == BigMulSmall(Second, 60)

(***************************************************************************)
(* Pointers, nil-able slices and errors: Nil, or a one-element sequence     *)
(* holding the value.                                                       *)
(***************************************************************************)
Nil == <<>>
Ptr(v) == <<v>>

(***************************************************************************)
(* allowedAPIServerDisruption and what it reads.                           *)
(***************************************************************************)
SingleReplicaTopologyMode == "SingleReplica"

\* semver.Version.GTE on Major and Minor
VersionGTE(a, b) == a.Major > b.Major \/ (a.Major = b.Major /\ a.Minor >= b.Minor)

\* util.AllClusterVersionsAreGTE: every version of the cluster's history is
\* at least version; false and the error when the history cannot be read
AllClusterVersionsAreGTE(version, cv) ==
    IF cv.err # Nil THEN [ok |-> FALSE, err |-> cv.err]
    ELSE [ok  |-> \A i \in 1..Len(cv.history) : VersionGTE(cv.history[i], version),
          err |-> Nil]

\* framework.ProviderIs
ProviderIs(f, name) == f.provider = name

\* getTopologies, mutated: the error of the read is not looked at
getTopologiesUnchecked(f) ==
    [failed |-> FALSE,
     controlPlaneTopology |-> f.infra.ControlPlaneTopology,
     infraTopology |-> f.infra.InfrastructureTopology]

\* getTopologies: framework.ExpectNoError fails the running test when the
\* infrastructure resource cannot be read, and nothing is returned
getTopologies(f) ==
    IF f.infra.err # Nil
    THEN [failed |-> TRUE, controlPlaneTopology |-> "", infraTopology |-> ""]
    ELSE [failed |-> FALSE,
          controlPlaneTopology |-> f.infra.ControlPlaneTopology,
          infraTopology |-> f.infra.InfrastructureTopology]

Decimal(n, d) == [num |-> n, den |-> d]

\* the switch, mutated: the provider case comes before the topology case
toleratedDisruptionProviderFirst(f, controlPlaneTopology, hasAllFixes) ==
    IF (ProviderIs(f, "azure") \/ ProviderIs(f, "aws") \/ ProviderIs(f, "gce")) /\ hasAllFixes
    THEN Decimal(0, 100)
    ELSE IF controlPlaneTopology = SingleReplicaTopologyMode
    THEN (IF ProviderIs(f, "azure") THEN Decimal(23, 100) ELSE Decimal(15, 100))
    ELSE Decimal(8, 100)

\* the switch, mutated: gce is missing from the provider case
toleratedDisruptionNoGCE(f, controlPlaneTopology, hasAllFixes) ==
    IF controlPlaneTopology = SingleReplicaTopologyMode
    THEN (IF ProviderIs(f, "azure") THEN Decimal(23, 100) ELSE Decimal(15, 100))
    ELSE IF ProviderIs(f, "azure") \/ ProviderIs(f, "aws")
    THEN (IF hasAllFixes THEN Decimal(0, 100) ELSE Decimal(8, 100))
    ELSE Decimal(8, 100)

\* the switch, mutated: the provider case does not look at the provider
toleratedDisruptionAnyProvider(f, controlPlaneTopology, hasAllFixes) ==
    IF controlPlaneTopology = SingleReplicaTopologyMode
    THEN (IF ProviderIs(f, "azure") THEN Decimal(23, 100) ELSE Decimal(15, 100))
    ELSE IF hasAllFixes THEN Decimal(0, 100) ELSE Decimal(8, 100)

\* the switch, mutated: the initial value is 0.8
toleratedDisruptionLooseDefault(f, controlPlaneTopology, hasAllFixes) ==
    IF controlPlaneTopology = SingleReplicaTopologyMode
    THEN (IF ProviderIs(f, "azure") THEN Decimal(23, 100) ELSE Decimal(15, 100))
    ELSE IF ProviderIs(f, "azure") \/ ProviderIs(f, "aws") \/ ProviderIs(f, "gce")
    THEN (IF hasAllFixes THEN Decimal(0, 100) ELSE Decimal(80, 100))
    ELSE Decimal(80, 100)

\* the switch of allowedAPIServerDisruption: the tolerated fraction
toleratedDisruption(f, controlPlaneTopology, hasAllFixes) ==
    IF controlPlaneTopology = SingleReplicaTopologyMode
    THEN (IF ProviderIs(f, "azure") THEN Decimal(23, 100) ELSE Decimal(15, 100))
    ELSE IF ProviderIs(f, "azure") \/ ProviderIs(f, "aws") \/ ProviderIs(f, "gce")
    THEN (IF hasAllFixes THEN Decimal(0, 100) ELSE Decimal(8, 100))
    ELSE Decimal(8, 100)

\* the text logged for the error err of the version check
LogCannotRequire(err) ==
    "Cannot require full control plane availability, some versions could not be checked: " \o err
LogNoDisruption == "Cluster contains no versions older than 4.8, tolerating no disruption"

allowedAPIServerDisruption(f, totalDuration) ==
    LET gte  == AllClusterVersionsAreGTE([Major |-> 4, Minor |-> 8], f.clusterVersion)
        log1 == IF gte.err # Nil THEN <<LogCannotRequire(gte.err[1])>> ELSE <<>>
        topo == getTopologies(f)
    IN IF topo.failed
       THEN [outcome |-> "failed", allowedDisruption |-> Nil, err |-> Nil,
             tolerated |-> Nil, logs |-> log1]
       ELSE LET t    == toleratedDisruption(f, topo.controlPlaneTopology, gte.ok)
                log2 == IF t.num = 0 THEN <<LogNoDisruption>> ELSE <<>>
                allowedDisruptionNanoseconds ==
                    Int64OfFloat64(Float64Mul(Float64OfInt(totalDuration), Float64Lit(t)))
            IN [outcome |-> "returned",
                allowedDisruption |-> Ptr(allowedDisruptionNanoseconds),
                err |-> Nil, tolerated |-> Ptr(t), logs |-> log1 \o log2]

(***************************************************************************)
(* The inputs of allowedAPIServerDisruption.                               *)
(***************************************************************************)
MaxHistory == 2
MaxSteps == 10
MaxNanos == 10
MaxOdd == 4

Topologies == {"SingleReplica", "HighlyAvailable", "External"}
Providers == {"azure", "aws", "gce", "vsphere", "openstack"}
Versions == {[Major |-> 3, Minor |-> 11], [Major |-> 4, Minor |-> 7],
             [Major |-> 4, Minor |-> 8], [Major |-> 5, Minor |-> 0]}
Histories == UNION {[1..n -> Versions] : n \in 1..MaxHistory}
ClusterVersions ==
    {[err |-> Ptr("clusterversions unavailable"), history |-> <<>>]}
    \cup {[err |-> Nil, history |-> h] : h \in Histories}
Infrastructures ==
    {[err |-> Ptr("infrastructures unavailable"), ControlPlaneTopology |-> "",
      InfrastructureTopology |-> ""]}
    \cup {[err |-> Nil, ControlPlaneTopology |-> t, InfrastructureTopology |-> t] :
            t \in Topologies}
Frameworks ==
    {[clusterVersion |-> cv, infra |-> i, provider |-> p] :
        cv \in ClusterVersions, i \in Infrastructures, p \in Providers}
\* run durations: multiples of ten minutes, a few nanoseconds, and
\* multiples of a duration that is no round number of nanoseconds
OddDuration == FromInt(999999937)
Durations ==
    {BigMulSmall(Minute, 10 * k) : k \in 0..MaxSteps}
    \cup {FromInt(n) : n \in 0..MaxNanos}
    \cup {BigMulSmall(OddDuration, 7 * k) : k \in 1..MaxOdd}

NoFacts == [called |-> FALSE, f |-> Nil, totalDuration |-> Nil]
NoOutcome == [outcome |-> "none", allowedDisruption |-> Nil, err |-> Nil,
              tolerated |-> Nil, logs |-> <<>>]

\* one disruption test asks for its allowed disruption
AllowedAPIServerDisruption ==
    /\ ~facts.called
    /\ \E f \in Frameworks, d \in Durations :
         /\ facts' = [called |-> TRUE, f |-> Ptr(f), totalDuration |-> Ptr(d)]
         /\ disruption' = allowedAPIServerDisruption(f, d)
    /\ UNCHANGED <<kubeClient, collected, op, cluster, apiCalls, ret, before>>

(***************************************************************************)
(* strings                                                                 *)
(***************************************************************************)
HasPrefix(s, prefix) == Len(s) >= Len(prefix) /\ SubSeq(s, 1, Len(prefix)) = prefix

UpperLetters == "ABCDEFGHIJKLMNOPQRSTUVWXYZ"
LowerLetters == "abcdefghijklmnopqrstuvwxyz"

\* the lower-case letter of each upper-case letter
LowerOf ==
    [c \in {SubSeq(UpperLetters, i, i) : i \in 1..26} |->
        LET i == CHOOSE j \in 1..26 : SubSeq(UpperLetters, j, j) = c
        IN SubSeq(LowerLetters, i, i)]

LowerChar(c) == IF c \in DOMAIN LowerOf THEN LowerOf[c] ELSE c

RECURSIVE ToLower(_)
ToLower(s) ==
    IF s = "" THEN "" ELSE LowerChar(SubSeq(s, 1, 1)) \o ToLower(SubSeq(s, 2, Len(s)))

RECURSIVE Join(_, _)
Join(elems, sep) ==
    IF elems = <<>> THEN ""
    ELSE IF Len(elems) = 1 THEN elems[1]
    ELSE elems[1] \o sep \o Join(Tail(elems), sep)

(***************************************************************************)
(* The required-scc monitor test.                                          *)
(***************************************************************************)
ValidatedSCCAnnotation == "openshift.io/scc"
RequiredSCCAnnotation == "openshift.io/required-scc"

defaultSCCs ==
    {"anyuid", "hostaccess", "hostmount-anyuid", "hostnetwork", "hostnetwork-v2",
     "nonroot", "nonroot-v2", "privileged", "restricted", "restricted-v2"}

\* the table of the non-standard SCCs, mutated: node-exporter is allowed in a
\* second namespace
nonStandardSCCNamespacesTwo ==
    ("node-exporter" :> {"openshift-monitoring", "openshift-machine-api"})
    @@ ("machine-api-termination-handler" :> {"openshift-machine-api"})

nonStandardSCCNamespaces ==
    ("node-exporter" :> {"openshift-monitoring"})
    @@ ("machine-api-termination-handler" :> {"openshift-machine-api"})

\* a map lookup: the value, or the empty string for a missing key
Annotation(pod, key) == IF key \in DOMAIN pod.Annotations THEN pod.Annotations[key] ELSE ""

\* the orders in which sets.Set.UnsortedList may return the elements of set
UnsortedLists(set) ==
    {l \in [1..Cardinality(set) -> set] : \A i, j \in DOMAIN l : l[i] = l[j] => i = j}

ownerReferences(pod) ==
    LET ownerRefs == [i \in 1..Len(pod.OwnerReferences) |->
                        ToLower(pod.OwnerReferences[i].Kind) \o "/"
                        \o pod.OwnerReferences[i].Name]
    IN IF Len(ownerRefs) > 0 THEN " (owners: " \o Join(ownerRefs, ", ") \o ")" ELSE ""

\* the pod carries the required-scc annotation: it fails only on a
\* non-standard SCC outside the namespaces that SCC is allowed in.
\* unsorted[scc] is what UnsortedList returns for nonStandardSCCNamespaces[scc].
RequiredPresentFailures(nsName, pod, unsorted) ==
    LET validatedSCC  == Annotation(pod, ValidatedSCCAnnotation)
        isNonStandard == validatedSCC \in DOMAIN nonStandardSCCNamespaces
    IN IF isNonStandard /\ nsName \notin nonStandardSCCNamespaces[validatedSCC]
       THEN <<"pod '" \o pod.Name \o "' has a non-standard SCC '" \o validatedSCC
              \o "' not allowed in namespace '" \o nsName
              \o "'; allowed namespaces are: " \o Join(unsorted[validatedSCC], ", ")>>
       ELSE <<>>

\* the switch on the validated SCC of a pod without the annotation, mutated:
\* the test of the allowed namespaces is inverted
MissingAnnotationFailuresInverted(nsName, pod, unsorted) ==
    LET validatedSCC == Annotation(pod, ValidatedSCCAnnotation)
        missing == "annotation missing from pod '" \o pod.Name \o "'" \o ownerReferences(pod)
    IN IF Len(validatedSCC) = 0
       THEN <<missing \o "; cannot suggest required-scc, no validated SCC on pod">>
       ELSE IF validatedSCC \in defaultSCCs
       THEN <<missing \o "; suggested required-scc: '" \o validatedSCC \o "'">>
       ELSE IF validatedSCC \in DOMAIN nonStandardSCCNamespaces
       THEN IF nsName \notin nonStandardSCCNamespaces[validatedSCC]
            THEN <<missing \o "; suggested required-scc: '" \o validatedSCC
                   \o "', this is a non-standard SCC">>
            ELSE <<missing \o "; pod is using non-standard SCC '" \o validatedSCC
                   \o "' not allowed in namespace '" \o nsName
                   \o "'; allowed namespaces are: " \o Join(unsorted[validatedSCC], ", ")>>
       ELSE <<missing \o "; cannot suggest required-scc, validated SCC '"
              \o validatedSCC \o "' is a custom SCC">>

\* the same switch, mutated: the case of the empty validated SCC is missing
MissingAnnotationFailuresNoEmptyCase(nsName, pod, unsorted) ==
    LET validatedSCC == Annotation(pod, ValidatedSCCAnnotation)
        missing == "annotation missing from pod '" \o pod.Name \o "'" \o ownerReferences(pod)
    IN IF validatedSCC \in defaultSCCs
       THEN <<missing \o "; suggested required-scc: '" \o validatedSCC \o "'">>
       ELSE IF validatedSCC \in DOMAIN nonStandardSCCNamespaces
       THEN IF nsName \in nonStandardSCCNamespaces[validatedSCC]
            THEN <<missing \o "; suggested required-scc: '" \o validatedSCC
                   \o "', this is a non-standard SCC">>
            ELSE <<missing \o "; pod is using non-standard SCC '" \o validatedSCC
                   \o "' not allowed in namespace '" \o nsName
                   \o "'; allowed namespaces are: " \o Join(unsorted[validatedSCC], ", ")>>
       ELSE <<missing \o "; cannot suggest required-scc, validated SCC '"
              \o validatedSCC \o "' is a custom SCC">>

\* the switch on the validated SCC of a pod without the annotation
MissingAnnotationFailures(nsName, pod, unsorted) ==
    LET validatedSCC  == Annotation(pod, ValidatedSCCAnnotation)
        isNonStandard == validatedSCC \in DOMAIN nonStandardSCCNamespaces
        owners  == ownerReferences(pod)
        missing == "annotation missing from pod '" \o pod.Name \o "'" \o owners
    IN IF Len(validatedSCC) = 0
       THEN <<missing \o "; cannot suggest required-scc, no validated SCC on pod">>
       ELSE IF validatedSCC \in defaultSCCs
       THEN <<missing \o "; suggested required-scc: '" \o validatedSCC \o "'">>
       ELSE IF isNonStandard
       THEN IF nsName \in nonStandardSCCNamespaces[validatedSCC]
            THEN <<missing \o "; suggested required-scc: '" \o validatedSCC
                   \o "', this is a non-standard SCC">>
            ELSE <<missing \o "; pod is using non-standard SCC '" \o validatedSCC
                   \o "' not allowed in namespace '" \o nsName
                   \o "'; allowed namespaces are: " \o Join(unsorted[validatedSCC], ", ")>>
       ELSE <<missing \o "; cannot suggest required-scc, validated SCC '"
              \o validatedSCC \o "' is a custom SCC">>

\* one turn of the loop over the pods, mutated: the continue that ends the
\* turn of a pod carrying the annotation is missing
PodFailuresNoContinue(nsName, pod, unsorted) ==
    IF RequiredSCCAnnotation \in DOMAIN pod.Annotations
    THEN RequiredPresentFailures(nsName, pod, unsorted)
         \o MissingAnnotationFailures(nsName, pod, unsorted)
    ELSE MissingAnnotationFailures(nsName, pod, unsorted)

\* one turn of the loop over the pods of a namespace: the failures it appends
PodFailures(nsName, pod, unsorted) ==
    IF RequiredSCCAnnotation \in DOMAIN pod.Annotations
    THEN RequiredPresentFailures(nsName, pod, unsorted)
    ELSE MissingAnnotationFailures(nsName, pod, unsorted)

\* the loop over pods.Items, mutated: a failure replaces the failures before
\* it instead of being appended to them
RECURSIVE NamespaceFailuresOverwrite(_, _, _)
NamespaceFailuresOverwrite(nsName, pods, unsorted) ==
    IF pods = <<>> THEN <<>>
    ELSE LET later == NamespaceFailuresOverwrite(nsName, Tail(pods), unsorted)
         IN IF later # <<>> THEN later ELSE PodFailures(nsName, Head(pods), unsorted)

\* the loop over pods.Items
RECURSIVE NamespaceFailures(_, _, _)
NamespaceFailures(nsName, pods, unsorted) ==
    IF pods = <<>> THEN <<>>
    ELSE PodFailures(nsName, Head(pods), unsorted)
         \o NamespaceFailures(nsName, Tail(pods), unsorted)

\* the scope test, mutated: openshift-must-gather-* is not left out
NamespaceInScopeWithMustGather(nsName) ==
    HasPrefix(nsName, "kube-") \/ nsName = "default"
    \/ nsName = "openshift" \/ HasPrefix(nsName, "openshift-")

\* the namespaces whose workloads must carry the annotation
NamespaceInScope(nsName) ==
    LET isPermanentOpenShiftNamespace ==
            (nsName = "openshift" \/ HasPrefix(nsName, "openshift-"))
            /\ ~HasPrefix(nsName, "openshift-must-gather-")
    IN ~(~HasPrefix(nsName, "kube-") /\ nsName # "default" /\ ~isPermanentOpenShiftNamespace)

TestName(nsName) ==
    "[sig-auth] all workloads in ns/" \o nsName \o " must set the '"
    \o RequiredSCCAnnotation \o "' annotation"

\* the junits of a namespace, mutated: the passing twin of a failure is missing
NamespaceJUnitsNoFlake(nsName, failures) ==
    IF Len(failures) = 0
    THEN <<[Name |-> TestName(nsName), SystemOut |-> "", FailureOutput |-> Nil]>>
    ELSE <<[Name |-> TestName(nsName), SystemOut |-> Join(failures, "\n"),
            FailureOutput |-> Ptr([Output |-> Join(failures, "\n")])]>>

\* the junits of a namespace, mutated: the passing twin comes before the failure
NamespaceJUnitsPassFirst(nsName, failures) ==
    IF Len(failures) = 0
    THEN <<[Name |-> TestName(nsName), SystemOut |-> "", FailureOutput |-> Nil]>>
    ELSE <<[Name |-> TestName(nsName), SystemOut |-> "", FailureOutput |-> Nil],
           [Name |-> TestName(nsName), SystemOut |-> Join(failures, "\n"),
            FailureOutput |-> Ptr([Output |-> Join(failures, "\n")])]>>

\* the junits a namespace adds, given its failures
NamespaceJUnits(nsName, failures) ==
    LET testName == TestName(nsName)
    IN IF Len(failures) = 0
       THEN <<[Name |-> testName, SystemOut |-> "", FailureOutput |-> Nil]>>
       ELSE LET failureMsg == Join(failures, "\n")
            IN <<[Name |-> testName, SystemOut |-> failureMsg,
                  FailureOutput |-> Ptr([Output |-> failureMsg])],
                 [Name |-> testName, SystemOut |-> "", FailureOutput |-> Nil]>>

\* the loop over namespaces.Items, mutated: a failing pod listing returns the
\* junits gathered so far with the error
RECURSIVE CollectNamespacesPartial(_, _, _, _, _)
CollectNamespacesPartial(items, i, junits, calls, unsorted) ==
    IF i > Len(items)
    THEN [outcome |-> "returned", intervals |-> Nil, junits |-> Ptr(junits),
          err |-> Nil, calls |-> calls]
    ELSE LET ns == items[i]
         IN IF ~NamespaceInScope(ns.Name)
            THEN CollectNamespacesPartial(items, i + 1, junits, calls, unsorted)
            ELSE IF ns.podsErr # Nil
            THEN [outcome |-> "returned", intervals |-> Nil, junits |-> Ptr(junits),
                  err |-> ns.podsErr, calls |-> Append(calls, <<"pods", ns.Name>>)]
            ELSE CollectNamespacesPartial(items, i + 1,
                    junits \o NamespaceJUnits(ns.Name,
                                 NamespaceFailures(ns.Name, ns.pods, unsorted)),
                    Append(calls, <<"pods", ns.Name>>), unsorted)

\* the loop over namespaces.Items from item i on, with the junits and the
\* list calls so far
RECURSIVE CollectNamespaces(_, _, _, _, _)
CollectNamespaces(items, i, junits, calls, unsorted) ==
    IF i > Len(items)
    THEN [outcome |-> "returned", intervals |-> Nil, junits |-> Ptr(junits),
          err |-> Nil, calls |-> calls]
    ELSE LET ns == items[i]
         IN IF ~NamespaceInScope(ns.Name)
            THEN CollectNamespaces(items, i + 1, junits, calls, unsorted)
            ELSE IF ns.podsErr # Nil
            THEN [outcome |-> "returned", intervals |-> Nil, junits |-> Nil,
                  err |-> ns.podsErr, calls |-> Append(calls, <<"pods", ns.Name>>)]
            ELSE CollectNamespaces(items, i + 1,
                    junits \o NamespaceJUnits(ns.Name,
                                 NamespaceFailures(ns.Name, ns.pods, unsorted)),
                    Append(calls, <<"pods", ns.Name>>), unsorted)

\* CollectData with a usable client, on the cluster snapshot c
CollectDataOn(c, unsorted) ==
    IF c.namespacesErr # Nil
    THEN [outcome |-> "returned", intervals |-> Nil, junits |-> Nil,
          err |-> c.namespacesErr, calls |-> <<<<"namespaces">>>>]
    ELSE CollectNamespaces(c.namespaces, 1, <<>>, <<<<"namespaces">>>>, unsorted)

(***************************************************************************)
(* The cluster snapshots CollectData is served.                            *)
(***************************************************************************)
MaxNamespaces == 2
MaxPods == 2

Pod(name, required, validated, owners) ==
    [Name |-> name,
     Annotations |->
        [k \in (IF required = Nil THEN {} ELSE {RequiredSCCAnnotation})
               \cup (IF validated = Nil THEN {} ELSE {ValidatedSCCAnnotation}) |->
            IF k = RequiredSCCAnnotation THEN required[1] ELSE validated[1]],
     OwnerReferences |-> owners]

OwnerRS == [Kind |-> "ReplicaSet", Name |-> "web-7c5d"]
OwnerDS == [Kind |-> "DaemonSet", Name |-> "node-exporter"]
OwnerLists == {<<>>, <<OwnerRS>>, <<OwnerDS, OwnerRS>>}

\* every shape of pod the classification tells apart
RequiredValues == {Nil, Ptr(""), Ptr("privileged")}
ValidatedValues ==
    {Nil, Ptr("")}
    \cup {Ptr(v) : v \in defaultSCCs \cup DOMAIN nonStandardSCCNamespaces \cup {"my-custom-scc"}}
AllPods == {Pod("p", r, v, o) : r \in RequiredValues, v \in ValidatedValues, o \in OwnerLists}

AllNames ==
    {"default", "default-app", "kube", "kube-foo", "kube-system", "my-app",
     "openshift", "openshiftx", "openshift-monitoring", "openshift-machine-api",
     "openshift-must-gather", "openshift-must-gather-x7k2p"}

Namespace(name, pods) == [Name |-> name, pods |-> pods, podsErr |-> Nil]
Snapshot(namespaces) == [namespacesErr |-> Nil, namespaces |-> namespaces]

\* one namespace holding at most one pod: every name with every pod shape
PodClusters ==
    {Snapshot(<<Namespace(n, <<>>)>>) : n \in AllNames}
    \cup {Snapshot(<<Namespace(n, <<p>>)>>) : n \in AllNames, p \in AllPods}

\* several namespaces holding several pods, and failing list calls
SomeNames == {"kube-foo", "my-app", "openshift-monitoring", "openshift-machine-api"}
SomePods ==
    {Pod("annotated", Ptr("restricted-v2"), Ptr("restricted-v2"), <<>>),
     Pod("exporter-annotated", Ptr("node-exporter"), Ptr("node-exporter"), <<OwnerDS>>),
     Pod("bare", Nil, Nil, <<>>),
     Pod("web", Nil, Ptr("privileged"), <<OwnerRS>>),
     Pod("exporter", Nil, Ptr("node-exporter"), <<OwnerDS, OwnerRS>>),
     Pod("custom", Nil, Ptr("my-custom-scc"), <<>>)}

Injective(f) == \A i, j \in DOMAIN f : f[i] = f[j] => i = j

\* the pods of namespace k, when pod i lives in namespace place[i]
PodsAt(pods, place, k) ==
    LET idx == {i \in DOMAIN pods : place[i] = k}
    IN IF idx = {} THEN <<>>
       ELSE SubSeq(pods, CHOOSE i \in idx : \A j \in idx : i <= j,
                         CHOOSE i \in idx : \A j \in idx : i >= j)

\* the namespaces names hold the pods pods, pod i in namespace place[i]; the
\* namespace listing fails (e = -1), or the pod listing of namespace e (e > 0)
ClusterOf(names, pods, place, e) ==
    [namespacesErr |-> IF e = -1 THEN Ptr("namespaces is forbidden") ELSE Nil,
     namespaces |->
        [k \in DOMAIN names |->
            [Name |-> names[k],
             pods |-> IF k = e THEN <<>> ELSE PodsAt(pods, place, k),
             podsErr |-> IF k = e THEN Ptr("pods is forbidden") ELSE Nil]]]

NameLists(maxN) == UNION {{s \in [1..n -> SomeNames] : Injective(s)} : n \in 0..maxN}
PodLists(maxP) == UNION {{s \in [1..t -> SomePods] : Injective(s)} : t \in 0..maxP}
Placements(maxN, maxP) ==
    UNION {{f \in [1..t -> 1..maxN] : \A i \in 1..(t - 1) : f[i] <= f[i + 1]} : t \in 0..maxP}

\* at most maxN namespaces holding at most maxP pods in all, in every order
\* and placement; a failing list call comes with at most one pod
Clusters(maxN, maxP) ==
    {ClusterOf(x[1], x[2], x[3], x[4]) :
        x \in {y \in NameLists(maxN) \X PodLists(maxP) \X Placements(maxN, maxP)
                     \X (-1..maxN) :
                 /\ Len(y[3]) = Len(y[2])
                 /\ \A i \in DOMAIN y[3] : y[3][i] <= Len(y[1])
                 /\ y[4] <= Len(y[1])
                 /\ y[4] = -1 => (y[1] = <<>> /\ y[2] = <<>>)
                 /\ y[4] # 0 => Len(y[2]) <= 1}}

UnsortedChoices ==
    {u \in [DOMAIN nonStandardSCCNamespaces ->
              UNION {UnsortedLists(nonStandardSCCNamespaces[k]) :
                       k \in DOMAIN nonStandardSCCNamespaces}] :
        \A k \in DOMAIN u : u[k] \in UnsortedLists(nonStandardSCCNamespaces[k])}

(***************************************************************************)
(* The phases of the monitor test.  A panic ends the process.              *)
(***************************************************************************)
Returned(intervals, junits, err) ==
    [outcome |-> "returned", intervals |-> intervals, junits |-> junits, err |-> err]
Panicked == [outcome |-> "panicked", intervals |-> Nil, junits |-> Nil, err |-> Nil]
NoReturn == [outcome |-> "none", intervals |-> Nil, junits |-> Nil, err |-> Nil]

Running == ret.outcome # "panicked"

\* kubernetes.NewForConfig returns a nil *Clientset with its error, and the
\* assignment stores that pointer in the interface-typed field
StartCollection ==
    /\ Running
    /\ \E configOK \in BOOLEAN :
         /\ kubeClient' = IF configOK THEN "clientset" ELSE "nilClientset"
         /\ ret' = Returned(Nil, Nil, IF configOK THEN Nil ELSE Ptr("invalid configuration"))
    /\ op' = "StartCollection"
    /\ cluster' = Nil
    /\ apiCalls' = <<>>
    /\ before' = Nil
    /\ UNCHANGED <<collected, facts, disruption>>

CollectData(snapshots) ==
    /\ Running
    /\ ~collected
    /\ collected' = TRUE
    /\ op' = "CollectData"
    /\ \/ /\ kubeClient = "nil"
          /\ ret' = Returned(Nil, Nil, Nil)
          /\ cluster' = Nil
          /\ apiCalls' = <<>>
       \/ /\ kubeClient = "nilClientset"
          /\ ret' = Panicked
          /\ cluster' = Nil
          /\ apiCalls' = <<>>
       \/ /\ kubeClient = "clientset"
          /\ \E c \in snapshots, unsorted \in UnsortedChoices :
               LET r == CollectDataOn(c, unsorted)
               IN /\ ret' = Returned(r.intervals, r.junits, r.err)
                  /\ cluster' = Ptr(c)
                  /\ apiCalls' = r.calls
    /\ before' = Nil
    /\ UNCHANGED <<kubeClient, facts, disruption>>

\* CollectData called once more while the cluster has not changed: the list
\* calls return what they returned, UnsortedList picks its order afresh
CollectDataAgain ==
    /\ Running
    /\ op = "CollectData"
    /\ kubeClient = "clientset"
    /\ cluster # Nil
    /\ before = Nil
    /\ \E unsorted \in UnsortedChoices :
         LET r == CollectDataOn(cluster[1], unsorted)
         IN /\ ret' = Returned(r.intervals, r.junits, r.err)
            /\ apiCalls' = r.calls
    /\ before' = Ptr(ret)
    /\ UNCHANGED <<kubeClient, collected, op, cluster, facts, disruption>>

\* a phase that does nothing, mutated: it drops the client
NoOpReleasing(name) ==
    /\ Running
    /\ op' = name
    /\ ret' = Returned(Nil, Nil, Nil)
    /\ cluster' = Nil
    /\ apiCalls' = <<>>
    /\ before' = Nil
    /\ kubeClient' = "nil"
    /\ UNCHANGED <<collected, facts, disruption>>

\* the phases that do nothing
NoOp(name) ==
    /\ Running
    /\ op' = name
    /\ ret' = Returned(Nil, Nil, Nil)
    /\ cluster' = Nil
    /\ apiCalls' = <<>>
    /\ before' = Nil
    /\ UNCHANGED <<kubeClient, collected, facts, disruption>>

ConstructComputedIntervals == NoOp("ConstructComputedIntervals")

EvaluateTestsFromConstructedIntervals == NoOp("EvaluateTestsFromConstructedIntervals")

WriteContentToStorage == NoOp("WriteContentToStorage")

Cleanup == NoOp("Cleanup")

(***************************************************************************)
(* Specifications.                                                         *)
(***************************************************************************)
Init ==
    /\ kubeClient = "nil"
    /\ collected = FALSE
    /\ op = "none"
    /\ cluster = Nil
    /\ apiCalls = <<>>
    /\ ret = NoReturn
    /\ before = Nil
    /\ facts = NoFacts
    /\ disruption = NoOutcome

Phases(snapshots) ==
    \/ StartCollection
    \/ CollectData(snapshots)
    \/ CollectDataAgain
    \/ ConstructComputedIntervals
    \/ EvaluateTestsFromConstructedIntervals
    \/ WriteContentToStorage
    \/ Cleanup

\* the monitor test on clusters of several namespaces and pods
Next == Phases(Clusters(MaxNamespaces, MaxPods))
Spec == Init /\ [][Next]_vars

\* the monitor test on every namespace name and pod shape, one pod at a time
NextPod == Phases(PodClusters)
SpecPod == Init /\ [][NextPod]_vars

\* the disruption tests' allowance
NextDisruption == AllowedAPIServerDisruption
SpecDisruption == Init /\ [][NextDisruption]_vars

(***************************************************************************)
(* Properties.                                                             *)
(***************************************************************************)
HasSuffix(s, suffix) ==
    Len(s) >= Len(suffix) /\ SubSeq(s, Len(s) - Len(suffix) + 1, Len(s)) = suffix

\* CollectData listed the cluster and returned test cases
Collected ==
    /\ op = "CollectData"
    /\ cluster # Nil
    /\ ret.outcome = "returned"
    /\ ret.junits # Nil

\* the places in the returned test cases of those named for namespace n
CasesOf(n) == {i \in DOMAIN ret.junits[1] : ret.junits[1][i].Name = TestName(n)}

Failing(i) == ret.junits[1][i].FailureOutput # Nil

\* the test cases of namespace n are one passing case
OnePass(n) == \E i \in DOMAIN ret.junits[1] : CasesOf(n) = {i} /\ ~Failing(i)

\* the test cases of namespace n are a failing case followed by a passing one
FailThenPass(n) ==
    \E i \in DOMAIN ret.junits[1] : CasesOf(n) = {i, i + 1} /\ Failing(i) /\ ~Failing(i + 1)

\* the failure output reported for namespace n
FailureOf(n) ==
    LET i == CHOOSE j \in CasesOf(n) : Failing(j)
    IN ret.junits[1][i].FailureOutput[1].Output

\* C1: after a CollectData that returned test cases, every in-scope namespace
\* of the listing has exactly one test case, without failure output, when none
\* of its pods is a violation, and otherwise exactly two of its name, adjacent,
\* the first with failure output and the second without.
C1_FlakePair ==
    Collected =>
        \A k \in DOMAIN cluster[1].namespaces :
            LET ns == cluster[1].namespaces[k]
                violations ==
                    NamespaceFailures(ns.Name, ns.pods, CHOOSE u \in UnsortedChoices : TRUE)
            IN NamespaceInScope(ns.Name) =>
                 IF violations = <<>> THEN OnePass(ns.Name) ELSE FailThenPass(ns.Name)

\* a listing whose first in-scope namespace has a violation and whose second has none
C1_Witness ==
    /\ Collected
    /\ Len(cluster[1].namespaces) = 2
    /\ cluster[1].namespaces[1].Name = "kube-foo"
    /\ cluster[1].namespaces[2].Name = "openshift-monitoring"
    /\ Len(cluster[1].namespaces[1].pods) = 1
    /\ Len(cluster[1].namespaces[2].pods) = 1
    /\ Len(ret.junits[1]) = 3
    /\ FailThenPass("kube-foo")
    /\ OnePass("openshift-monitoring")

Asked == facts.called /\ facts.f[1].infra.err = Nil
SingleReplica == facts.f[1].infra.ControlPlaneTopology = "SingleReplica"
FixedProvider == facts.f[1].provider \in {"azure", "aws", "gce"}
\* the version check succeeded and found every version at 4.8 or later
BaselineReached ==
    /\ facts.f[1].clusterVersion.err = Nil
    /\ \A i \in DOMAIN facts.f[1].clusterVersion.history :
         LET v == facts.f[1].clusterVersion.history[i]
         IN v.Major > 4 \/ (v.Major = 4 /\ v.Minor >= 8)
Fraction(n) == Ptr([num |-> n, den |-> 100])

\* C2: on a SingleReplica control plane the tolerated fraction is 0.23 on
\* azure and 0.15 on every other provider, whatever the version check gave.
C2_SingleReplica ==
    (Asked /\ SingleReplica) =>
        /\ disruption.outcome = "returned"
        /\ disruption.tolerated =
              IF facts.f[1].provider = "azure" THEN Fraction(23) ELSE Fraction(15)

\* SingleReplica on azure with every version at 4.8 or later: rule 1 wins
C2_Witness ==
    /\ Asked /\ SingleReplica /\ BaselineReached
    /\ facts.f[1].provider = "azure"
    /\ disruption.tolerated = Fraction(23)

\* C3: off SingleReplica, on azure, aws or gce, with every version at 4.8 or
\* later, the tolerated fraction is 0 and so is the allowed duration.
C3_NoDisruption ==
    (Asked /\ ~SingleReplica /\ FixedProvider /\ BaselineReached) =>
        /\ disruption.outcome = "returned"
        /\ disruption.tolerated = Fraction(0)
        /\ disruption.allowedDisruption = Ptr(<<>>)

\* HighlyAvailable on gce at 4.8 over a run of 100 minutes: nothing is allowed
C3_Witness ==
    /\ Asked /\ BaselineReached
    /\ facts.f[1].infra.ControlPlaneTopology = "HighlyAvailable"
    /\ facts.f[1].provider = "gce"
    /\ facts.totalDuration[1] = BigMulSmall(Minute, 100)
    /\ disruption.allowedDisruption = Ptr(<<>>)

\* C4: off SingleReplica, on a provider other than azure, aws and gce, or
\* without every version found at 4.8 or later, the tolerated fraction is 0.08.
C4_Default ==
    (Asked /\ ~SingleReplica /\ (~FixedProvider \/ ~BaselineReached)) =>
        /\ disruption.outcome = "returned"
        /\ disruption.tolerated = Fraction(8)

\* HighlyAvailable on vsphere with every version at 4.8 or later
C4_Witness ==
    /\ Asked /\ ~SingleReplica /\ BaselineReached
    /\ facts.f[1].provider = "vsphere"
    /\ disruption.tolerated = Fraction(8)

\* C5: the allowed duration is the total duration times the tolerated
\* fraction with the fraction of a nanosecond dropped (r with
\* r*100 <= d*n < (r+1)*100 for the fraction n/100); 100 minutes on a
\* SingleReplica cluster off azure give exactly 15 minutes.
C5_Product ==
    (Asked /\ disruption.outcome = "returned") =>
        LET d == facts.totalDuration[1]
            t == disruption.tolerated[1]
            r == disruption.allowedDisruption[1]
        IN /\ BigLeq(BigMulSmall(r, t.den), BigMulSmall(d, t.num))
           /\ BigLess(BigMulSmall(d, t.num), BigMulSmall(BigAdd(r, <<1>>), t.den))
           /\ (SingleReplica /\ facts.f[1].provider # "azure"
               /\ d = BigMulSmall(Minute, 100)) => r = BigMulSmall(Minute, 15)

\* 100 minutes on SingleReplica aws: 15 minutes
C5_Witness ==
    /\ Asked /\ SingleReplica
    /\ facts.f[1].provider = "aws"
    /\ facts.totalDuration[1] = BigMulSmall(Minute, 100)
    /\ disruption.allowedDisruption = Ptr(BigMulSmall(Minute, 15))

\* C6 as stated: whatever could not be read, the version history or the
\* infrastructure resource, a budget is returned with a nil error.
C6_NeverAborts ==
    facts.called => (disruption.outcome = "returned" /\ disruption.err = Nil
                     /\ disruption.allowedDisruption # Nil)

\* C6, amended: a failed version check does not abort, the budget is returned
\* with a nil error and follows the topology and the provider (0.23 or 0.15 on
\* SingleReplica, 0.08 otherwise); a failed read of the infrastructure
\* resource fails the test and no budget is returned.
C6_VersionFailureOnly ==
    facts.called =>
        /\ (facts.f[1].infra.err = Nil) =>
              /\ disruption.outcome = "returned"
              /\ disruption.err = Nil
              /\ disruption.allowedDisruption # Nil
        /\ (facts.f[1].infra.err = Nil /\ facts.f[1].clusterVersion.err # Nil) =>
              disruption.tolerated =
                 IF SingleReplica
                 THEN (IF facts.f[1].provider = "azure" THEN Fraction(23) ELSE Fraction(15))
                 ELSE Fraction(8)
        /\ (facts.f[1].infra.err # Nil) =>
              /\ disruption.outcome = "failed"
              /\ disruption.allowedDisruption = Nil

\* the version history could not be read, on HighlyAvailable aws: 0.08 of the run
C6_Witness ==
    /\ Asked /\ ~SingleReplica
    /\ facts.f[1].clusterVersion.err # Nil
    /\ facts.f[1].provider = "aws"
    /\ disruption.outcome = "returned"
    /\ disruption.tolerated = Fraction(8)
    /\ disruption.logs =
          <<"Cannot require full control plane availability, some versions could not be checked: clusterversions unavailable">>

C7_InScope(n) ==
    \/ n = "default"
    \/ HasPrefix(n, "kube-")
    \/ /\ n = "openshift" \/ HasPrefix(n, "openshift-")
       /\ ~HasPrefix(n, "openshift-must-gather-")

\* C7: the pods of a listed namespace are listed, and a test case of its name
\* returned, exactly when its name is "default", starts with "kube-", or is
\* "openshift" or starts with "openshift-" without starting with
\* "openshift-must-gather-".
C7_Scope ==
    Collected =>
        \A k \in DOMAIN cluster[1].namespaces :
            LET n == cluster[1].namespaces[k].Name
            IN /\ C7_InScope(n) <=> (\E i \in DOMAIN apiCalls : apiCalls[i] = <<"pods", n>>)
               /\ C7_InScope(n) <=> (CasesOf(n) # {})
               /\ ~C7_InScope(n) => ret.junits[1] = <<>>

\* a must-gather namespace holding a pod without annotations: nothing listed, nothing returned
C7_Witness ==
    /\ Collected
    /\ cluster[1].namespaces[1].Name = "openshift-must-gather-x7k2p"
    /\ Len(cluster[1].namespaces[1].pods) = 1
    /\ cluster[1].namespaces[1].pods[1].Annotations = <<>>
    /\ apiCalls = <<<<"namespaces">>>>
    /\ ret.junits = Ptr(<<>>)

\* the in-scope namespaces of the listing that hold exactly one pod
OnePodNamespaces ==
    {k \in DOMAIN cluster[1].namespaces :
        /\ NamespaceInScope(cluster[1].namespaces[k].Name)
        /\ Len(cluster[1].namespaces[k].pods) = 1}

\* C8: a pod carrying the required-scc annotation is a violation only if its
\* validated SCC is a key of nonStandardSCCNamespaces and its namespace is not
\* among that key's namespaces; with a validated SCC that is no key, its
\* namespace gets one passing test case.
C8_RequiredPresent ==
    Collected =>
        \A k \in OnePodNamespaces :
            LET ns  == cluster[1].namespaces[k]
                pod == ns.pods[1]
                v   == Annotation(pod, ValidatedSCCAnnotation)
            IN RequiredSCCAnnotation \in DOMAIN pod.Annotations =>
                 /\ (\E i \in CasesOf(ns.Name) : Failing(i)) =>
                        (v \in DOMAIN nonStandardSCCNamespaces
                         /\ ns.Name \notin nonStandardSCCNamespaces[v])
                 /\ v \notin DOMAIN nonStandardSCCNamespaces => OnePass(ns.Name)

\* an empty required-scc annotation and a custom validated SCC, in kube-system
C8_Witness ==
    /\ Collected
    /\ cluster[1].namespaces[1].Name = "kube-system"
    /\ Len(cluster[1].namespaces[1].pods) = 1
    /\ cluster[1].namespaces[1].pods[1].Annotations =
          (RequiredSCCAnnotation :> "") @@ (ValidatedSCCAnnotation :> "my-custom-scc")
    /\ OnePass("kube-system")

\* C9: a pod without the required-scc annotation is reported: with an empty
\* validated SCC as "no validated SCC on pod", with a default SCC as a
\* suggestion of that SCC and nothing after it, with an SCC that is neither
\* empty, default nor a key of nonStandardSCCNamespaces as a custom SCC; its
\* namespace gets a failing test case followed by a passing one.
C9_MissingAnnotation ==
    Collected =>
        \A k \in OnePodNamespaces :
            LET ns  == cluster[1].namespaces[k]
                pod == ns.pods[1]
                v   == Annotation(pod, ValidatedSCCAnnotation)
            IN RequiredSCCAnnotation \notin DOMAIN pod.Annotations =>
                 /\ FailThenPass(ns.Name)
                 /\ v = "" =>
                      HasSuffix(FailureOf(ns.Name),
                                "; cannot suggest required-scc, no validated SCC on pod")
                 /\ v \in defaultSCCs =>
                      HasSuffix(FailureOf(ns.Name), "; suggested required-scc: '" \o v \o "'")
                 /\ (v # "" /\ v \notin defaultSCCs /\ v \notin DOMAIN nonStandardSCCNamespaces) =>
                      HasSuffix(FailureOf(ns.Name),
                                "; cannot suggest required-scc, validated SCC '" \o v
                                \o "' is a custom SCC")

\* kube-foo holding one pod without annotations or owners
C9_Witness ==
    /\ Collected
    /\ cluster[1].namespaces[1].Name = "kube-foo"
    /\ Len(cluster[1].namespaces[1].pods) = 1
    /\ cluster[1].namespaces[1].pods[1].Annotations = <<>>
    /\ Len(ret.junits[1]) = 2
    /\ FailThenPass("kube-foo")
    /\ FailureOf("kube-foo") =
          "annotation missing from pod 'p'; cannot suggest required-scc, no validated SCC on pod"

C10_Allowed ==
    ("node-exporter" :> "openshift-monitoring")
    @@ ("machine-api-termination-handler" :> "openshift-machine-api")

\* C10: a pod without the required-scc annotation whose validated SCC is
\* node-exporter or machine-api-termination-handler is reported as a
\* suggestion of that SCC with the non-standard note in the namespace the SCC
\* is allowed in (openshift-monitoring, openshift-machine-api), and elsewhere
\* as not allowed in its namespace, with the allowed namespace named.
C10_NonStandard ==
    Collected =>
        \A k \in OnePodNamespaces :
            LET ns  == cluster[1].namespaces[k]
                pod == ns.pods[1]
                v   == Annotation(pod, ValidatedSCCAnnotation)
            IN (RequiredSCCAnnotation \notin DOMAIN pod.Annotations /\ v \in DOMAIN C10_Allowed) =>
                 /\ FailThenPass(ns.Name)
                 /\ HasSuffix(FailureOf(ns.Name),
                       IF ns.Name = C10_Allowed[v]
                       THEN "; suggested required-scc: '" \o v \o "', this is a non-standard SCC"
                       ELSE "; pod is using non-standard SCC '" \o v
                            \o "' not allowed in namespace '" \o ns.Name
                            \o "'; allowed namespaces are: " \o C10_Allowed[v])

\* node-exporter in openshift-machine-api: not allowed, openshift-monitoring named
C10_Witness ==
    /\ Collected
    /\ cluster[1].namespaces[1].Name = "openshift-machine-api"
    /\ Len(cluster[1].namespaces[1].pods) = 1
    /\ cluster[1].namespaces[1].pods[1].Annotations = (ValidatedSCCAnnotation :> "node-exporter")
    /\ cluster[1].namespaces[1].pods[1].OwnerReferences = <<>>
    /\ FailureOf("openshift-machine-api") =
          "annotation missing from pod 'p'; pod is using non-standard SCC 'node-exporter' not allowed in namespace 'openshift-machine-api'; allowed namespaces are: openshift-monitoring"

\* C11: CollectData run a second time on the same cluster snapshot returns
\* what it returned the first time, test cases and message texts, whatever
\* order UnsortedList gives the allowed namespaces in on either run.
C11_Deterministic ==
    before # Nil => ret = before[1]

\* a second run over a pod that carries the annotation with node-exporter in
\* kube-system: the same message, the allowed namespaces rendered alike
C11_Witness ==
    /\ before # Nil
    /\ Collected
    /\ ret = before[1]
    /\ cluster[1].namespaces[1].Name = "kube-system"
    /\ Len(cluster[1].namespaces[1].pods) = 1
    /\ cluster[1].namespaces[1].pods[1].Annotations =
          (RequiredSCCAnnotation :> "privileged") @@ (ValidatedSCCAnnotation :> "node-exporter")
    /\ cluster[1].namespaces[1].pods[1].OwnerReferences = <<>>
    /\ FailureOf("kube-system") =
          "pod 'p' has a non-standard SCC 'node-exporter' not allowed in namespace 'kube-system'; allowed namespaces are: openshift-monitoring"

\* the in-scope namespaces of the listing whose pod listing fails
C12_Failed ==
    {k \in DOMAIN cluster[1].namespaces :
        /\ C7_InScope(cluster[1].namespaces[k].Name)
        /\ cluster[1].namespaces[k].podsErr # Nil}

\* C12: when the namespace listing fails, or the pod listing of an in-scope
\* namespace, CollectData returns that error with nil test cases and nil
\* intervals, whatever the namespaces before it gave; when no listing it
\* makes fails, it returns test cases and a nil error.
C12_ListError ==
    (op = "CollectData" /\ cluster # Nil) =>
        /\ ret.outcome = "returned"
        /\ cluster[1].namespacesErr # Nil => ret = Returned(Nil, Nil, cluster[1].namespacesErr)
        /\ (cluster[1].namespacesErr = Nil /\ C12_Failed # {}) =>
              LET first == CHOOSE k \in C12_Failed : \A j \in C12_Failed : k <= j
              IN ret = Returned(Nil, Nil, cluster[1].namespaces[first].podsErr)
        /\ (cluster[1].namespacesErr = Nil /\ C12_Failed = {}) =>
              (ret.junits # Nil /\ ret.err = Nil /\ ret.intervals = Nil)

\* kube-foo holds a pod without the annotation, the pod listing of
\* openshift-monitoring after it fails: the error alone is returned
C12_Witness ==
    /\ op = "CollectData" /\ cluster # Nil
    /\ Len(cluster[1].namespaces) = 2
    /\ cluster[1].namespaces[1].Name = "kube-foo"
    /\ Len(cluster[1].namespaces[1].pods) = 1
    /\ cluster[1].namespaces[1].pods[1].Name = "bare"
    /\ cluster[1].namespaces[2].Name = "openshift-monitoring"
    /\ cluster[1].namespaces[2].podsErr = Ptr("pods is forbidden")
    /\ apiCalls = <<<<"namespaces">>, <<"pods", "kube-foo">>, <<"pods", "openshift-monitoring">>>>
    /\ ret = Returned(Nil, Nil, Ptr("pods is forbidden"))

Contains(s, sub) ==
    \E i \in 1..(Len(s) - Len(sub) + 1) : SubSeq(s, i, i + Len(sub) - 1) = sub

\* the owner summaries of the owner lists the pods carry, as the claims word
\* them: lower-cased kind, "/", name, joined by ", "
C13_Summary(owners) ==
    IF owners = <<OwnerRS>> THEN "replicaset/web-7c5d"
    ELSE IF owners = <<OwnerDS, OwnerRS>> THEN "daemonset/node-exporter, replicaset/web-7c5d"
    ELSE ""

\* the message reported for the single pod of namespace n names the pod's
\* owners, or has no owner text when the pod has none
C13_OwnersShown(n, pod) ==
    IF pod.OwnerReferences = <<>>
    THEN ~Contains(FailureOf(n), "owner")
    ELSE Contains(FailureOf(n), " (owners: " \o C13_Summary(pod.OwnerReferences) \o ")")

\* C13: every violation message of a pod carries the pod's owner summary when
\* the pod has owner references and no owner text when it has none, for a pod
\* without the required-scc annotation and for a pod with it alike.
C13_OwnerSummary ==
    Collected =>
        \A k \in OnePodNamespaces :
            LET ns == cluster[1].namespaces[k]
            IN (\E i \in CasesOf(ns.Name) : Failing(i)) => C13_OwnersShown(ns.Name, ns.pods[1])

\* the part of C13 the code keeps: the messages of the pods without the
\* required-scc annotation
C13_MissingAnnotationOwners ==
    Collected =>
        \A k \in OnePodNamespaces :
            LET ns == cluster[1].namespaces[k]
            IN RequiredSCCAnnotation \notin DOMAIN ns.pods[1].Annotations =>
                 C13_OwnersShown(ns.Name, ns.pods[1])

\* the last StartCollection returned an error: the field holds what
\* NewForConfig returned with it
StartFailed == kubeClient = "nilClientset"

\* C14: a CollectData called after a StartCollection that returned an error
\* returns, without a list call and without test cases.
C14_FailedStartNoCrash ==
    (op = "CollectData" /\ StartFailed) =>
        /\ ret.outcome = "returned"
        /\ apiCalls = <<>>
        /\ ret.junits = Nil

\* the lines of a text
RECURSIVE Lines(_)
Lines(s) ==
    LET nl == {i \in 1..Len(s) : SubSeq(s, i, i) = "\n"}
    IN IF nl = {} THEN <<s>>
       ELSE LET i == CHOOSE j \in nl : \A m \in nl : j <= m
            IN <<SubSeq(s, 1, i - 1)>> \o Lines(SubSeq(s, i + 1, Len(s)))

\* the j-th smallest element of a set of numbers
Nth(set, j) == CHOOSE i \in set : Cardinality({x \in set : x < i}) = j - 1

\* the lines of the failure output of namespace n, none when it has no
\* failing test case
C15_Messages(n) ==
    IF \E i \in CasesOf(n) : Failing(i) THEN Lines(FailureOf(n)) ELSE <<>>

\* C15: in every in-scope namespace the lines of the failure output are the
\* messages of a selection of its pods, in listing order, one line a pod and
\* each naming its pod; the selection holds every pod without the
\* required-scc annotation; the failing case's SystemOut is the same text.
C15_NoPodDropped ==
    Collected =>
        \A k \in DOMAIN cluster[1].namespaces :
            LET ns    == cluster[1].namespaces[k]
                lines == C15_Messages(ns.Name)
                lacking == {i \in DOMAIN ns.pods :
                              RequiredSCCAnnotation \notin DOMAIN ns.pods[i].Annotations}
            IN C7_InScope(ns.Name) =>
                 /\ \E reported \in SUBSET (DOMAIN ns.pods) :
                      /\ lacking \subseteq reported
                      /\ Len(lines) = Cardinality(reported)
                      /\ \A j \in DOMAIN lines :
                           LET i == Nth(reported, j)
                           IN HasPrefix(lines[j],
                                 IF i \in lacking
                                 THEN "annotation missing from pod '" \o ns.pods[i].Name \o "'"
                                 ELSE "pod '" \o ns.pods[i].Name \o "' has a non-standard SCC '")
                 /\ \A i \in CasesOf(ns.Name) :
                      Failing(i) => ret.junits[1][i].SystemOut = FailureOf(ns.Name)

\* kube-foo holding the pods bare and web, neither annotated: two lines, bare first
C15_Witness ==
    /\ Collected
    /\ Len(cluster[1].namespaces) = 1
    /\ cluster[1].namespaces[1].Name = "kube-foo"
    /\ Len(cluster[1].namespaces[1].pods) = 2
    /\ cluster[1].namespaces[1].pods[1].Name = "bare"
    /\ cluster[1].namespaces[1].pods[2].Name = "web"
    /\ FailureOf("kube-foo") =
          "annotation missing from pod 'bare'; cannot suggest required-scc, no validated SCC on pod\nannotation missing from pod 'web' (owners: replicaset/web-7c5d); suggested required-scc: 'privileged'"

C16_Phases ==
    {"ConstructComputedIntervals", "EvaluateTestsFromConstructedIntervals",
     "WriteContentToStorage", "Cleanup"}

\* C16: ConstructComputedIntervals, EvaluateTestsFromConstructedIntervals,
\* WriteContentToStorage and Cleanup return nil intervals, nil test cases and a
\* nil error and make no list call, whatever the client handle is and whatever
\* was called before; a step of one of them leaves the client handle as it
\* was; CollectData returns nil intervals.
C16_NoOps ==
    /\ [](op \in C16_Phases => (ret = Returned(Nil, Nil, Nil) /\ apiCalls = <<>>))
    /\ [](op = "CollectData" => ret.intervals = Nil)
    /\ [][op' \in C16_Phases => kubeClient' = kubeClient]_vars

\* Cleanup after a StartCollection that returned an error: the handle is
\* still the one that StartCollection stored
C16_Witness ==
    /\ op = "Cleanup"
    /\ StartFailed
    /\ ret = Returned(Nil, Nil, Nil)

\* C17: in the test cases CollectData returns for namespaces of distinct
\* names, every case with failure output is directly followed by a case of
\* the same name without failure output, no name comes more than twice, and
\* the cases of a namespace listed earlier come before those of one listed later.
C17_NoGatingFailure ==
    (Collected /\ Injective([k \in DOMAIN cluster[1].namespaces |-> cluster[1].namespaces[k].Name])) =>
        LET junits == ret.junits[1]
        IN /\ \A i \in DOMAIN junits :
                Failing(i) => /\ i + 1 \in DOMAIN junits
                              /\ junits[i + 1].Name = junits[i].Name
                              /\ ~Failing(i + 1)
           /\ \A i \in DOMAIN junits :
                Cardinality({m \in DOMAIN junits : junits[m].Name = junits[i].Name}) <= 2
           /\ \A a, b \in DOMAIN cluster[1].namespaces :
                a < b => \A x \in CasesOf(cluster[1].namespaces[a].Name),
                            y \in CasesOf(cluster[1].namespaces[b].Name) : x < y

\* openshift-machine-api listed before kube-foo, each holding a pod without
\* the annotation: fail, pass, fail, pass, in the order of the listing
C17_Witness ==
    /\ Collected
    /\ Len(cluster[1].namespaces) = 2
    /\ cluster[1].namespaces[1].Name = "openshift-machine-api"
    /\ cluster[1].namespaces[2].Name = "kube-foo"
    /\ Len(ret.junits[1]) = 4
    /\ Failing(1) /\ ~Failing(2) /\ Failing(3) /\ ~Failing(4)
    /\ ret.junits[1][2].Name = TestName("openshift-machine-api")
    /\ ret.junits[1][3].Name = TestName("kube-foo")

\* the version check of cv succeeds and finds every version at 4.8 or later
C18_Baseline(cv) ==
    /\ cv.err = Nil
    /\ \A i \in DOMAIN cv.history :
         cv.history[i].Major > 4 \/ (cv.history[i].Major = 4 /\ cv.history[i].Minor >= 8)

\* other version histories, and a failing version check
C18_OtherVersions ==
    {[err |-> Ptr("clusterversions unavailable"), history |-> <<>>],
     [err |-> Nil, history |-> <<[Major |-> 4, Minor |-> 7]>>],
     [err |-> Nil, history |-> <<[Major |-> 4, Minor |-> 8], [Major |-> 5, Minor |-> 0]>>]}

\* C18: the tolerated fraction is 0, 0.08, 0.15 or 0.23; a cluster of the
\* same topology and provider whose version check has the same outcome gets
\* the same fraction, over a run of any length; the allowed duration is at
\* most the total duration.
C18_FractionAndBounds ==
    (Asked /\ disruption.outcome = "returned") =>
        /\ disruption.tolerated \in {Fraction(0), Fraction(8), Fraction(15), Fraction(23)}
        /\ \A cv \in C18_OtherVersions :
              (C18_Baseline(cv) <=> C18_Baseline(facts.f[1].clusterVersion)) =>
                 allowedAPIServerDisruption([facts.f[1] EXCEPT !.clusterVersion = cv], <<>>).tolerated
                    = disruption.tolerated
        /\ BigLeq(<<>>, disruption.allowedDisruption[1])
        /\ BigLeq(disruption.allowedDisruption[1], facts.totalDuration[1])

\* HighlyAvailable on openstack with a version 4.7 in the history, over 100
\* minutes: 0.08, 8 minutes
C18_Witness ==
    /\ Asked
    /\ facts.f[1].infra.ControlPlaneTopology = "HighlyAvailable"
    /\ facts.f[1].provider = "openstack"
    /\ facts.f[1].clusterVersion.history = <<[Major |-> 4, Minor |-> 7]>>
    /\ facts.totalDuration[1] = BigMulSmall(Minute, 100)
    /\ disruption.tolerated = Fraction(8)
    /\ disruption.allowedDisruption = Ptr(BigMulSmall(Minute, 8))

====
